---- MODULE Spec2Model ----
(***************************************************************************)
(* The two TTS services of the repository (kokoro-tts-server/app.py and    *)
(* mlx-audio-native/app.py): POST /api/tts with its on-disk audio cache,   *)
(* GET /audio/{filename}, the engines' synthesize operations and the       *)
(* startup hooks.  A behaviour runs one of the two services (service).     *)
(*                                                                         *)
(* Strings are sequences of one-character strings, so that the f-string    *)
(* of generate_cache_key is a real concatenation.  Both services run on    *)
(* one asyncio event loop: a handler keeps the loop (running) from the     *)
(* moment it is entered until it reaches an await that suspends or it      *)
(* returns.                                                                *)
(***************************************************************************)
EXTENDS Integers, Sequences, FiniteSets, TLC

(* ------------------------------ bounds -------------------------------- *)
\* number of HTTP clients; each sends one request
NumClients == 2

Clients == 1..NumClients

\* most segments the model yields for one request, most samples in all of them
MaxSegments == 2
MaxSamples == 3

(* ------------------------------ strings ------------------------------- *)
S_en == <<"e", "n">>
S_ja == <<"j", "a">>
S_zh == <<"z", "h">>
S_es == <<"e", "s">>
S_fr == <<"f", "r">>
S_hi == <<"h", "i">>
S_it == <<"i", "t">>
S_pt == <<"p", "t">>
S_xx == <<"x", "x">>
S_wav == <<"w", "a", "v">>
S_flac == <<"f", "l", "a", "c">>
S_female == <<"f", "e", "m", "a", "l", "e">>
S_male == <<"m", "a", "l", "e">>
S_af_heart == <<"a", "f", "_", "h", "e", "a", "r", "t">>
S_af_alloy == <<"a", "f", "_", "a", "l", "l", "o", "y">>
S_af_bella == <<"a", "f", "_", "b", "e", "l", "l", "a">>
S_af_nova == <<"a", "f", "_", "n", "o", "v", "a">>
S_af_nicole == <<"a", "f", "_", "n", "i", "c", "o", "l", "e">>
S_kokoro == <<"k", "o", "k", "o", "r", "o">>
S_mlx_native == <<"m", "l", "x", "-", "n", "a", "t", "i", "v", "e">>
Colon == <<":">>

(* ------------------------- request input sets -------------------------- *)
Texts == {<<"a">>, <<"a", ":">>}
Voices == {S_female, Colon \o S_female, S_af_bella}
\* speed is a float; the model keeps it in tenths (10 is 1.0)
Speeds == {10, 15}
Languages == {S_en, S_ja, S_xx}
Formats == {S_wav, S_flac}

\* TTSRequest.  The requests of one run come from one family: a family lets
\* one or two fields of the request vary and fixes the others.
Families ==
  { [text : Texts, language : {S_ja}, voice : {S_female, Colon \o S_female},
     format : {S_wav}, speed : {10}],
    [text : {<<"a">>}, language : {S_ja}, voice : Voices \ {Colon \o S_female},
     format : {S_wav}, speed : {10}],
    [text : {<<"a">>}, language : Languages, voice : {S_female},
     format : {S_wav}, speed : {10}],
    [text : {<<"a">>}, language : {S_ja}, voice : {S_female},
     format : Formats, speed : Speeds] }

Requests == UNION Families

(* --------------------------- lookup tables ----------------------------- *)
\* dict.get(key, default)
DictGet(dict, key, default) == IF key \in DOMAIN dict THEN dict[key] ELSE default

KokoroSupportedLanguages ==
  [l \in {S_en, S_ja, S_es, S_fr, S_hi, S_it, S_pt, S_zh} |->
     CASE l = S_en -> "a" [] l = S_ja -> "j" [] l = S_es -> "e" [] l = S_fr -> "f"
       [] l = S_hi -> "h" [] l = S_it -> "i" [] l = S_pt -> "p" [] l = S_zh -> "z"]

MlxSupportedLanguages ==
  [l \in {S_en, S_ja, S_zh} |-> CASE l = S_en -> "a" [] l = S_ja -> "j" [] l = S_zh -> "z"]

voice_mapping ==
  [l \in {S_en, S_ja, S_zh} |->
     CASE l = S_en ->
            [v \in {S_female, S_male, S_af_heart, S_af_alloy, S_af_bella, S_af_nova} |->
               CASE v = S_female -> S_af_heart [] v = S_male -> S_af_alloy
                 [] OTHER -> v]
       [] l = S_ja ->
            [v \in {S_female, S_male, S_af_heart, S_af_bella, S_af_alloy} |->
               CASE v = S_female -> S_af_bella [] v = S_male -> S_af_alloy
                 [] v = S_af_heart -> S_af_bella [] OTHER -> v]
       [] l = S_zh ->
            [v \in {S_female, S_male, S_af_heart, S_af_nicole, S_af_alloy} |->
               CASE v = S_female -> S_af_nicole [] v = S_male -> S_af_alloy
                 [] v = S_af_heart -> S_af_nicole [] OTHER -> v]]

\* NativeMLXAudioTTS.get_voice_for_language
get_voice_for_language(language, voice_preference) ==
  LET lang_voices == DictGet(voice_mapping, language, voice_mapping[S_en])
  IN  DictGet(lang_voices, voice_preference, DictGet(lang_voices, S_female, S_af_bella))

\* NativeMLXAudioTTS.get_lang_code
get_lang_code(language) == DictGet(MlxSupportedLanguages, language, "j")

\* KokoroTTS.load_model's lang_code
KokoroLangCode(language) == DictGet(KokoroSupportedLanguages, language, "a")

(* ----------------------------- cache key ------------------------------- *)
Digit(n) ==
  CASE n = 0 -> "0" [] n = 1 -> "1" [] n = 2 -> "2" [] n = 3 -> "3" [] n = 4 -> "4"
    [] n = 5 -> "5" [] n = 6 -> "6" [] n = 7 -> "7" [] n = 8 -> "8" [] n = 9 -> "9"

\* str(int) of a natural number
RECURSIVE IntStr(_)
IntStr(n) == IF n < 10 THEN <<Digit(n)>> ELSE IntStr(n \div 10) \o <<Digit(n % 10)>>

\* f"{speed}" of a float with one decimal, held in tenths: 10 -> "1.0"
FloatStr(speed) == IntStr(speed \div 10) \o <<".">> \o <<Digit(speed % 10)>>

\* the string generate_cache_key hashes
KeyContent(prefix, text, voice, speed, language) ==
  prefix \o Colon \o text \o Colon \o voice \o Colon \o FloatStr(speed) \o Colon \o language

\* hashlib.md5(...).hexdigest(), taken to be collision-free: the digest stands
\* for the hashed string and for nothing else
Md5Hex(content) == <<"md5", content>>

ServicePrefix(svc) == IF svc = "kokoro" THEN S_kokoro ELSE S_mlx_native

generate_cache_key(svc, text, voice, speed, language) ==
  Md5Hex(KeyContent(ServicePrefix(svc), text, voice, speed, language))

\* f"{cache_key}.{request.format}": a hex digest has no dot, so the pair is the name
FileName(cache_key, format) == <<cache_key, format>>

CacheFile(svc, r) ==
  FileName(generate_cache_key(svc, r.text, r.voice, r.speed, r.language), r.format)

\* f"/audio/{cache_key}.{request.format}"
AudioUrl(file) == <<"/audio/", file>>

(* ------------------------------- audio --------------------------------- *)
\* KokoroTTS.sample_rate, NativeMLXAudioTTS.sample_rate
sample_rate == 24000

\* A sample is a float: a finite rational n/d, NaN, +/-Inf (n is the sign), or
\* +/- the largest finite float (k = "max", n the sign), which nan_to_num
\* puts in place of an infinity when no posinf/neginf is given.
Fin(n, d) == [k |-> "fin", n |-> n, d |-> d]
NaN == [k |-> "nan", n |-> 0, d |-> 1]
PosInf == [k |-> "inf", n |-> 1, d |-> 1]
NegInf == [k |-> "inf", n |-> -1, d |-> 1]
FloatMax(sign) == [k |-> "max", n |-> sign, d |-> 1]

Abs(i) == IF i < 0 THEN -i ELSE i

\* -1 <= x <= 1 for a float x (false of NaN)
InUnitRange(x) == x.k = "fin" /\ Abs(x.n) <= x.d

\* np.any(np.isnan(a)), np.any(np.isinf(a))
AnyNaN(a) == \E i \in 1..Len(a) : a[i].k = "nan"
AnyInf(a) == \E i \in 1..Len(a) : a[i].k = "inf"

\* np.nan_to_num(a, nan=0.0, posinf=.., neginf=..); sign -> replacement of an infinity
nan_to_num(a, inf_to) ==
  [i \in 1..Len(a) |->
     CASE a[i].k = "nan" -> Fin(0, 1)
       [] a[i].k = "inf" -> inf_to[a[i].n]
       [] OTHER -> a[i]]

InfToMax == [s \in {-1, 1} |-> FloatMax(s)]
InfToOne == [s \in {-1, 1} |-> Fin(s, 1)]

\* |x| <= |y| for finite floats
AbsLeq(x, y) ==
  CASE y.k = "max" -> TRUE
    [] x.k = "max" -> FALSE
    [] OTHER -> Abs(x.n) * y.d <= Abs(y.n) * x.d

\* np.max(np.abs(a)) of a non-empty array of finite floats: an element of
\* largest magnitude (used through its magnitude only)
MaxAbs(a) == a[CHOOSE i \in 1..Len(a) : \A j \in 1..Len(a) : AbsLeq(a[j], a[i])]

\* |m| > 1.0
AbsAboveOne(m) == m.k = "max" \/ (m.k = "fin" /\ Abs(m.n) > m.d)

\* x / |m| for finite floats, |x| <= |m|; a finite sample over the largest
\* float is a value next to zero, written 0
DivAbs(x, m) ==
  CASE m.k = "max" -> IF x.k = "max" THEN Fin(x.n, 1) ELSE Fin(0, 1)
    [] OTHER -> Fin(x.n * m.d, x.d * Abs(m.n))

\* a / np.max(np.abs(a))
Normalize(a) == LET m == MaxAbs(a) IN [i \in 1..Len(a) |-> DivAbs(a[i], m)]

\* the NaN / Inf / peak repair applied to a segment and to the final audio
\* (np.max of an empty array raises, see MlxAssemble)
Repair(a) ==
  LET a1 == IF AnyNaN(a) THEN nan_to_num(a, InfToMax) ELSE a
      a2 == IF AnyInf(a1) THEN nan_to_num(a1, InfToOne) ELSE a1
  IN  IF AbsAboveOne(MaxAbs(a2)) THEN Normalize(a2) ELSE a2

\* np.concatenate(audio_segments)
RECURSIVE Concatenate(_)
Concatenate(segs) == IF segs = <<>> THEN <<>> ELSE Head(segs) \o Concatenate(Tail(segs))

Raised(msg) == [ok |-> FALSE, audio |-> <<>>, segment_count |-> 0, msg |-> msg]
Returned(audio, n) == [ok |-> TRUE, audio |-> audio, segment_count |-> n, msg |-> ""]

\* an assembly that counts the waveform, not the segments
KokoroAssembleCountsOne(segs) ==
  IF Len(segs) = 0 THEN Raised("No audio segments generated")
  ELSE Returned(IF Len(segs) = 1 THEN segs[1] ELSE Concatenate(segs), 1)

\* KokoroTTS.synthesize after the pipeline call: collect and concatenate
KokoroAssemble(segs) ==
  IF Len(segs) = 0 THEN Raised("No audio segments generated")
  ELSE Returned(IF Len(segs) = 1 THEN segs[1] ELSE Concatenate(segs), Len(segs))

\* an assembly that keeps the first segment only
MlxAssembleFirst(segs) ==
  IF Len(segs) = 0 THEN Raised("MLX-Audio synthesis failed: No audio segments generated")
  ELSE IF Len(segs[1]) = 0
  THEN Raised("MLX-Audio synthesis failed: zero-size array to reduction operation")
  ELSE Returned(Repair(segs[1]), Len(segs))

\* NativeMLXAudioTTS.synthesize after generate: repair each segment, concatenate,
\* repair the result
MlxAssemble(segs) ==
  IF \E i \in 1..Len(segs) : Len(segs[i]) = 0
  THEN Raised("MLX-Audio synthesis failed: zero-size array to reduction operation")
  ELSE IF Len(segs) = 0 THEN Raised("MLX-Audio synthesis failed: No audio segments generated")
  ELSE LET audio_segments == [i \in 1..Len(segs) |-> Repair(segs[i])]
           final_audio == IF Len(segs) = 1 THEN audio_segments[1]
                          ELSE Concatenate(audio_segments)
       IN  Returned(Repair(final_audio), Len(segs))

\* what the external model may yield for a request: a sequence of segments
ModelOutputs ==
  { <<>>,
    << <<Fin(1, 2)>> >>,
    << <<Fin(3, 2), NaN>>, <<NegInf, Fin(1, 2)>> >> }

\* the samples a segment is made of: in range, too loud, NaN, infinite
Samples == {Fin(1, 2), Fin(-3, 2), NaN, PosInf}

SeqsUpTo(S, n) == UNION {[1..k -> S] : k \in 0..n}

\* every way of yielding at most MaxSamples samples in at most MaxSegments
\* segments: the samples in a row, cut into segments (empty ones included)
SegmentLists ==
  {<<>>} \cup
  UNION { { [i \in 1..n |-> SubSeq(flat, (IF i = 1 THEN 0 ELSE cuts[i - 1]) + 1,
                                         IF i = n THEN Len(flat) ELSE cuts[i])] :
              cuts \in {b \in [1..(n - 1) -> 0..Len(flat)] :
                          \A i \in 1..(n - 2) : b[i] <= b[i + 1]} } :
          n \in 1..MaxSegments, flat \in SeqsUpTo(Samples, MaxSamples) }

(* ----------------------------- cache files ----------------------------- *)
\* a file of the cache directory: the samples sf.write stored; complete is
\* false of a file a failed sf.write left behind
Written(audio) == [data |-> audio, complete |-> TRUE]
Partial == [data |-> <<>>, complete |-> FALSE]

\* a check that looks into another directory: the file is never found
ExistsElsewhere(files, file) == FALSE

\* Path.exists()
Exists(files, file) == file \in DOMAIN files

\* sf.info(file).duration: frames / samplerate, as the pair <<frames, rate>>
InfoDuration(content) == <<Len(content.data), sample_rate>>

\* a duration taken from the number of segments instead of the samples
AudioDurationOfSegments(audio) == <<1, sample_rate>>

\* len(final_audio) / self.sample_rate
AudioDuration(audio) == <<Len(audio), sample_rate>>

(* ------------------------------- state --------------------------------- *)
VARIABLES
  service,              \* "kokoro" or "mlx": the service this process runs
  family,               \* the requests the clients of this run send
  yields,               \* the segment sequences the model may yield in this run
  server,               \* "starting", "serving" or "aborted" (startup raised)
  tts_engine,           \* the module-level engine
  MLX_AUDIO_AVAILABLE,  \* the MLX module flag set by initialize_mlx_audio
  cache,                \* AUDIO_CACHE_DIR: file name -> file
  running,              \* the client whose handler holds the event loop, 0 if none
  pc,                   \* client -> position of its request
  kind,                 \* client -> "none", "post" or "get"
  req,                  \* client -> the TTSRequest it posted
  resp,                 \* client -> the response it got
  obs                   \* client -> what happened while its request was handled

vars ==
  <<service, family, yields, server, tts_engine, MLX_AUDIO_AVAILABLE, cache, running, pc, kind, req, resp, obs>>

\* a cache file name no request maps to (for GET /audio/{filename})
NoSuchFile == FileName(Md5Hex(<<"?">>), S_wav)

NoRequest == [text |-> <<>>, language |-> <<>>, voice |-> <<>>, format |-> <<>>, speed |-> 0]

NoResponse ==
  [status |-> 0, detail |-> "", audio_url |-> <<>>, duration |-> <<0, sample_rate>>,
   cache_hit |-> FALSE, voice_used |-> <<>>, segments |-> 0,
   cache_control |-> "", body |-> Partial]

\* pre: the request's cache file existed when its handler was entered;
\* before: the clients already answered when its handler was entered;
\* together: the clients in flight when it arrived; faults: what failed while it
\* was handled (every call that raised); invoked: calls of the engine's
\* synthesize; wrote: files sf.write left in the
\* cache; pipeline: the handle the model call used; file: the name a GET asked for;
\* generated: the model's generator was read to its end; yielded: the segments
\* it yielded; returned: what the engine's synthesize returned or raised
NoObs ==
  [pre |-> FALSE, before |-> {}, together |-> {}, faults |-> {}, invoked |-> 0,
   wrote |-> 0, pipeline |-> "None", file |-> NoSuchFile,
   generated |-> FALSE, yielded |-> <<>>, returned |-> Raised("")]

Init ==
  /\ service \in {"kokoro", "mlx"}
  /\ family \in Families
  /\ yields = ModelOutputs
  /\ server = "starting"
  /\ tts_engine = [bound |-> (service = "kokoro"), pipeline |-> "None",
                   model_loaded |-> FALSE, kokoro_model |-> FALSE]
  /\ MLX_AUDIO_AVAILABLE = FALSE
  /\ cache = <<>>
  /\ running = 0
  /\ pc = [c \in Clients |-> "idle"]
  /\ kind = [c \in Clients |-> "none"]
  /\ req = [c \in Clients |-> NoRequest]
  /\ resp = [c \in Clients |-> NoResponse]
  /\ obs = [c \in Clients |-> NoObs]

(* ------------------------------ responses ------------------------------ *)
\* raise HTTPException(status_code=..., detail=...)
HttpError(status, detail) == [NoResponse EXCEPT !.status = status, !.detail = detail]

\* an except clause that passes the failure on as a client error
SynthesisFailedAs400(msg) == [NoResponse EXCEPT !.status = 400, !.detail = msg]

\* except Exception as e: raise HTTPException(status_code=500, detail=f"TTS synthesis failed: {str(e)}")
SynthesisFailed(msg) == HttpError(500, "TTS synthesis failed: " \o msg)

\* TTSResponse(...)
TTSResponse(file, duration, cache_hit, voice, segments) ==
  [NoResponse EXCEPT !.status = 200, !.audio_url = AudioUrl(file), !.duration = duration,
                     !.cache_hit = cache_hit, !.voice_used = voice, !.segments = segments]

\* a handler that serves from another directory: nothing is found
get_audio_file_elsewhere(files, filename) ==
  [NoResponse EXCEPT !.status = 404, !.detail = "Audio file not found"]

\* get_audio_file: GET /audio/{filename}
get_audio_file(files, filename) ==
  IF ~Exists(files, filename) THEN HttpError(404, "Audio file not found")
  ELSE [NoResponse EXCEPT !.status = 200, !.cache_control = "public, max-age=3600",
                          !.body = files[filename]]

(* ------------------------------ event loop ----------------------------- *)
\* synthesize handed to a worker (run_in_executor): every await of it suspends
AwaitOffloaded(site) == TRUE

\* Whether the await at `site` gives the event loop to another handler.
\* "synthesize" is `await tts_engine.synthesize(...)`, "load_model" is
\* `await self.load_model(language)`.  An await of a coroutine suspends only
\* where the coroutine awaits something that is not ready; load_model and both
\* synthesize bodies await nothing of that kind (every call in them is a plain
\* blocking call), so neither await ever suspends.
AwaitSuspends(site) == FALSE

\* the loop after the await at `site` in the handler of c
AfterAwait(c, site) == IF AwaitSuspends(site) THEN 0 ELSE c

\* the handler of c may take its next step
MayResume(c) == running = c \/ running = 0

Answered == {c \in Clients : pc[c] = "done"}
InFlight == {c \in Clients : pc[c] \notin {"idle", "done"}}

\* the handler of c returns or raises: the response goes out and the loop is free
Respond(c, response) ==
  /\ resp' = [resp EXCEPT ![c] = response]
  /\ pc' = [pc EXCEPT ![c] = "done"]
  /\ running' = 0

(* ------------------------------- startup ------------------------------- *)
\* KokoroTTS.load_model: the pipeline for the language's code
LoadedEngine(engine, language) ==
  [engine EXCEPT !.pipeline = KokoroLangCode(language), !.model_loaded = TRUE]

\* kokoro startup_event: pre-load the English pipeline; a failure is logged only
startup_event ==
  /\ service = "kokoro"
  /\ server = "starting"
  /\ \E loaded \in BOOLEAN :
       tts_engine' = IF loaded THEN LoadedEngine(tts_engine, S_en) ELSE tts_engine
  /\ server' = "serving"
  /\ UNCHANGED <<service, family, yields, MLX_AUDIO_AVAILABLE, cache, running, pc, kind, req, resp, obs>>

\* a startup hook that logs the failure and serves anyway
StartedAnyway(mlx_success, model_ok) == "serving"

\* lifespan: `if mlx_success: ... if tts_engine.kokoro_model: (ready) else: raise
\* RuntimeError` and `else: raise RuntimeError`; a raise aborts the startup
Started(mlx_success, model_ok) == IF mlx_success /\ model_ok THEN "serving" ELSE "aborted"

\* mlx lifespan: import MLX-Audio, create the engine, refuse to start without a model
lifespan ==
  /\ service = "mlx"
  /\ server = "starting"
  /\ \E mlx_success \in BOOLEAN, model_ok \in BOOLEAN :
       /\ MLX_AUDIO_AVAILABLE' = mlx_success
       /\ tts_engine' = IF mlx_success
                        THEN [tts_engine EXCEPT !.bound = TRUE, !.kokoro_model = model_ok]
                        ELSE tts_engine
       /\ server' = Started(mlx_success, model_ok)
  /\ UNCHANGED <<service, family, yields, cache, running, pc, kind, req, resp, obs>>

(* ------------------------------- requests ------------------------------ *)
\* clients are interchangeable: they send in the order of their numbers
NextToSend(c) == pc[c] = "idle" /\ \A d \in Clients : d < c => pc[d] # "idle"

\* a POST /api/tts arrives: its body is parsed and its handler is scheduled
Receive(c) ==
  /\ server = "serving"
  /\ NextToSend(c)
  /\ \E r \in family : req' = [req EXCEPT ![c] = r]
  /\ kind' = [kind EXCEPT ![c] = "post"]
  /\ pc' = [pc EXCEPT ![c] = "pending"]
  /\ obs' = [obs EXCEPT ![c].together = InFlight]
  /\ UNCHANGED <<service, family, yields, server, tts_engine, MLX_AUDIO_AVAILABLE, cache, running, resp>>

\* the file names a client may ask for: those of the cache, those of the
\* requests posted so far, and one that was never written
KnownFiles ==
  DOMAIN cache \cup {CacheFile(service, req[d]) : d \in {e \in Clients : kind[e] = "post"}}
    \cup {NoSuchFile}

\* GET /audio/{filename}: the handler awaits nothing
GetAudio(c) ==
  /\ server = "serving"
  /\ NextToSend(c)
  /\ running = 0
  /\ \E filename \in KnownFiles :
       /\ obs' = [obs EXCEPT ![c].file = filename, ![c].pre = (filename \in DOMAIN cache),
                             ![c].before = Answered]
       /\ Respond(c, get_audio_file(cache, filename))
  /\ kind' = [kind EXCEPT ![c] = "get"]
  /\ UNCHANGED <<service, family, yields, server, tts_engine, MLX_AUDIO_AVAILABLE, cache, req>>

\* sf.write(str(cache_file), audio_data, sample_rate): the file is written, or
\* the write raises and leaves no file, or it raises and leaves a broken file
WriteOutcomes == {"written", "raised_no_file", "raised_broken_file"}

Put(files, file, content) ==
  [f \in DOMAIN files \cup {file} |-> IF f = file THEN content ELSE files[f]]

sf_write(files, file, audio, outcome) ==
  CASE outcome = "written" -> Put(files, file, Written(audio))
    [] outcome = "raised_broken_file" -> Put(files, file, Partial)
    [] OTHER -> files

\* what the model call does: it raises (at the call or while its generator is
\* read), or it yields a sequence of segments
Generations ==
  {[raises |-> TRUE, segs |-> <<>>]} \cup {[raises |-> FALSE, segs |-> o] : o \in yields}

(* ------------------------- kokoro: POST /api/tts ----------------------- *)
\* synthesize_speech up to `await tts_engine.synthesize(...)`, and to its end on
\* an unsupported language or a cache hit
Kokoro_synthesize_speech(c) ==
  /\ service = "kokoro"
  /\ pc[c] = "pending"
  /\ running = 0
  /\ LET r == req[c]
         cache_file == CacheFile(service, r)
         cache_hit == Exists(cache, cache_file)
         entered == [obs[c] EXCEPT !.pre = (cache_file \in DOMAIN cache), !.before = Answered]
     IN  IF r.language \notin DOMAIN KokoroSupportedLanguages
         THEN \* the HTTPException(400) is raised inside the try and caught by
              \* `except Exception`, which answers 500
              /\ Respond(c, SynthesisFailed("400: Language not supported"))
              /\ obs' = [obs EXCEPT ![c] = entered]
         ELSE IF cache_hit
         THEN \E info_ok \in BOOLEAN :
                /\ Respond(c, IF info_ok
                              THEN TTSResponse(cache_file, InfoDuration(cache[cache_file]),
                                               TRUE, r.voice, 1)
                              ELSE SynthesisFailed("sf.info"))
                /\ obs' = [obs EXCEPT ![c] =
                             [entered EXCEPT !.faults = IF info_ok THEN {} ELSE {"sf.info"}]]
         ELSE /\ pc' = [pc EXCEPT ![c] = "synthesize"]
              /\ running' = AfterAwait(c, "synthesize")
              /\ obs' = [obs EXCEPT ![c] = [entered EXCEPT !.invoked = 1]]
              /\ UNCHANGED resp
  /\ UNCHANGED <<service, family, yields, server, tts_engine, MLX_AUDIO_AVAILABLE, cache, kind, req>>

\* KokoroTTS.synthesize: `await self.load_model(language)`
Kokoro_load_model(c) ==
  /\ service = "kokoro"
  /\ pc[c] = "synthesize"
  /\ MayResume(c)
  /\ \E loaded \in BOOLEAN :
       IF loaded
       THEN /\ tts_engine' = LoadedEngine(tts_engine, req[c].language)
            /\ pc' = [pc EXCEPT ![c] = "generate"]
            /\ running' = AfterAwait(c, "load_model")
            /\ UNCHANGED <<resp, obs>>
       ELSE /\ Respond(c, SynthesisFailed("load_model"))
            /\ obs' = [obs EXCEPT ![c].faults = {"load_model"}]
            /\ UNCHANGED tts_engine
  /\ UNCHANGED <<service, family, yields, server, MLX_AUDIO_AVAILABLE, cache, kind, req>>

\* KokoroTTS.synthesize after load_model (the pipeline call and its segments),
\* then synthesize_speech to its end: sf.write, sf.info, the response
Kokoro_synthesize(c) ==
  /\ service = "kokoro"
  /\ pc[c] = "generate"
  /\ MayResume(c)
  /\ \E g \in Generations, w \in WriteOutcomes, info_ok \in BOOLEAN :
       LET r == req[c]
           cache_file == CacheFile(service, r)
           res == IF g.raises THEN Raised("pipeline") ELSE KokoroAssemble(g.segs)
           files == IF res.ok THEN sf_write(cache, cache_file, res.audio, w) ELSE cache
           faults == IF g.raises THEN {"pipeline"}
                     ELSE IF ~res.ok THEN {"no audio"}
                     ELSE IF w # "written" THEN {"sf.write"}
                     ELSE IF ~info_ok THEN {"sf.info"} ELSE {}
           response ==
             IF ~res.ok THEN SynthesisFailed(res.msg)
             ELSE IF w # "written" THEN SynthesisFailed("sf.write")
             ELSE IF ~info_ok THEN SynthesisFailed("sf.info")
             ELSE TTSResponse(cache_file, InfoDuration(files[cache_file]), FALSE, r.voice,
                              res.segment_count)
       IN  /\ cache' = files
           /\ Respond(c, response)
           /\ obs' = [obs EXCEPT ![c].faults = faults,
                                 ![c].pipeline = tts_engine.pipeline,
                                 ![c].generated = ~g.raises,
                                 ![c].yielded = g.segs,
                                 ![c].returned = res,
                                 ![c].wrote = IF res.ok /\ w # "raised_no_file" THEN 1 ELSE 0]
  /\ UNCHANGED <<service, family, yields, server, tts_engine, MLX_AUDIO_AVAILABLE, kind, req>>

(* --------------------------- mlx: POST /api/tts ------------------------ *)
\* synthesize_speech up to `await tts_engine.synthesize(...)`, and to its end
\* without an engine or on a cache hit
Mlx_synthesize_speech(c) ==
  /\ service = "mlx"
  /\ pc[c] = "pending"
  /\ running = 0
  /\ LET r == req[c]
         cache_file == CacheFile(service, r)
         cache_hit == Exists(cache, cache_file)
         entered == [obs[c] EXCEPT !.pre = (cache_file \in DOMAIN cache), !.before = Answered]
     IN  IF ~tts_engine.bound
         THEN /\ Respond(c, HttpError(503, "TTS engine not initialized"))
              /\ obs' = [obs EXCEPT ![c] = entered]
         ELSE IF cache_hit
         THEN \E info_ok \in BOOLEAN :
                /\ Respond(c, IF info_ok
                              THEN TTSResponse(cache_file, InfoDuration(cache[cache_file]),
                                               TRUE, r.voice, 0)
                              ELSE SynthesisFailed("sf.info"))
                /\ obs' = [obs EXCEPT ![c] =
                             [entered EXCEPT !.faults = IF info_ok THEN {} ELSE {"sf.info"}]]
         ELSE /\ pc' = [pc EXCEPT ![c] = "synthesize"]
              /\ running' = AfterAwait(c, "synthesize")
              /\ obs' = [obs EXCEPT ![c] = [entered EXCEPT !.invoked = 1]]
              /\ UNCHANGED resp
  /\ UNCHANGED <<service, family, yields, server, tts_engine, MLX_AUDIO_AVAILABLE, cache, kind, req>>

\* the first attempt of NativeMLXAudioTTS.synthesize: KokoroPipeline(lang_code)
\* and pipeline.generate(...)
PipelineOutcomes == {"generated", "KokoroPipeline raised", "pipeline.generate raised"}

\* NativeMLXAudioTTS.synthesize (the pipeline, the fallback to kokoro_model.generate
\* when the pipeline raises, the segments), then synthesize_speech to its end:
\* sf.write and the response
Mlx_synthesize(c) ==
  /\ service = "mlx"
  /\ pc[c] = "synthesize"
  /\ MayResume(c)
  /\ \E p \in PipelineOutcomes, fallback_ok \in BOOLEAN, g \in Generations,
        w \in WriteOutcomes :
       LET r == req[c]
           cache_file == CacheFile(service, r)
           ready == MLX_AUDIO_AVAILABLE /\ tts_engine.kokoro_model
           first == IF p = "generated" THEN {} ELSE {p}
           second == IF p # "generated" /\ ~fallback_ok
                     THEN {"kokoro_model.generate raised"} ELSE {}
           res == IF ~ready THEN Raised("MLX-Audio not available or not initialized")
                  ELSE IF second # {}
                  THEN Raised("MLX-Audio synthesis failed: kokoro_model.generate")
                  ELSE IF g.raises THEN Raised("MLX-Audio synthesis failed: segments")
                  ELSE MlxAssemble(g.segs)
           files == IF res.ok THEN sf_write(cache, cache_file, res.audio, w) ELSE cache
           faults == IF ~ready THEN {}
                     ELSE first \cup second
                          \cup (IF second = {} /\ g.raises THEN {"segments raised"} ELSE {})
                          \cup (IF second = {} /\ ~g.raises /\ ~res.ok THEN {"no audio"} ELSE {})
                          \cup (IF res.ok /\ w # "written" THEN {"sf.write"} ELSE {})
           response ==
             IF ~res.ok THEN SynthesisFailed(res.msg)
             ELSE IF w # "written" THEN SynthesisFailed("sf.write")
             ELSE TTSResponse(cache_file, AudioDuration(res.audio), FALSE, r.voice, 0)
       IN  /\ cache' = files
           /\ Respond(c, response)
           /\ obs' = [obs EXCEPT ![c].faults = faults,
                                 ![c].pipeline = get_lang_code(r.language),
                                 ![c].generated = ready /\ second = {} /\ ~g.raises,
                                 ![c].yielded = IF ready /\ second = {} THEN g.segs ELSE <<>>,
                                 ![c].returned = res,
                                 ![c].wrote = IF res.ok /\ w # "raised_no_file" THEN 1 ELSE 0]
  /\ UNCHANGED <<service, family, yields, server, tts_engine, MLX_AUDIO_AVAILABLE, kind, req>>

(* ---------------------------- specification ---------------------------- *)
Next ==
  \/ startup_event
  \/ lifespan
  \/ \E c \in Clients : Receive(c)
  \/ \E c \in Clients : GetAudio(c)
  \/ \E c \in Clients : Kokoro_synthesize_speech(c)
  \/ \E c \in Clients : Kokoro_load_model(c)
  \/ \E c \in Clients : Kokoro_synthesize(c)
  \/ \E c \in Clients : Mlx_synthesize_speech(c)
  \/ \E c \in Clients : Mlx_synthesize(c)

Spec == Init /\ [][Next]_vars

(* ----------------- the synthesize operations on their own -------------- *)
\* a request every family holds
AudioRequest ==
  [text |-> <<"a">>, language |-> S_ja, voice |-> S_female, format |-> S_wav, speed |-> 10]

\* The handler of the first client stands at the model call of the engine's
\* synthesize, on an empty cache; the model yields one of SegmentLists.
InitAudio ==
  /\ service \in {"kokoro", "mlx"}
  /\ family = CHOOSE f \in Families : AudioRequest \in f
  /\ yields \in {{o} : o \in SegmentLists}
  /\ server = "serving"
  /\ tts_engine = IF service = "kokoro"
                  THEN [bound |-> TRUE, pipeline |-> KokoroLangCode(S_ja),
                        model_loaded |-> TRUE, kokoro_model |-> FALSE]
                  ELSE [bound |-> TRUE, pipeline |-> "None",
                        model_loaded |-> FALSE, kokoro_model |-> TRUE]
  /\ MLX_AUDIO_AVAILABLE = (service = "mlx")
  /\ cache = <<>>
  /\ running = 1
  /\ pc = [c \in Clients |-> IF c # 1 THEN "idle"
                              ELSE IF service = "kokoro" THEN "generate" ELSE "synthesize"]
  /\ kind = [c \in Clients |-> IF c = 1 THEN "post" ELSE "none"]
  /\ req = [c \in Clients |-> IF c = 1 THEN AudioRequest ELSE NoRequest]
  /\ resp = [c \in Clients |-> NoResponse]
  /\ obs = [c \in Clients |-> IF c = 1 THEN [NoObs EXCEPT !.invoked = 1] ELSE NoObs]

NextAudio ==
  \/ \E c \in Clients : Kokoro_synthesize(c)
  \/ \E c \in Clients : Mlx_synthesize(c)

AudioSpec == InitAudio /\ [][NextAudio]_vars

TypeOK ==
  /\ service \in {"kokoro", "mlx"}
  /\ server \in {"starting", "serving", "aborted"}
  /\ running \in Clients \cup {0}
  /\ \A c \in Clients : pc[c] \in {"idle", "pending", "synthesize", "generate", "done"}

(* ------------------------------- claims -------------------------------- *)
Posted(c) == kind[c] = "post" /\ pc[c] = "done"
Succeeded(c) == Posted(c) /\ resp[c].status = 200
Fetched(c) == kind[c] = "get" /\ pc[c] = "done"

SameTuple(r1, r2) ==
  r1.text = r2.text /\ r1.voice = r2.voice /\ r1.speed = r2.speed /\ r1.language = r2.language

\* d was handled after c had been answered
Sequential(c, d) == c # d /\ Posted(c) /\ Posted(d) /\ c \in obs[d].before

\* c and d were in flight at the same time
Concurrent(c, d) == c # d /\ (c \in obs[d].together \/ d \in obs[c].together)

\* C1 as stated: of two sequential successful POSTs with the same (text, voice,
\* speed, language), the first starting without its cache file, the first reports
\* cache_hit = false, the second cache_hit = true, and both give the same
\* audio_url, whatever the formats of the two requests.
C1_AnyFormat ==
  \A c, d \in Clients :
    (Sequential(c, d) /\ Succeeded(c) /\ Succeeded(d) /\ SameTuple(req[c], req[d])
       /\ ~obs[c].pre)
    => (~resp[c].cache_hit /\ resp[d].cache_hit /\ resp[c].audio_url = resp[d].audio_url)

\* C1 (amended): the same, for two requests that also have the same format.
C1_SameFormat ==
  \A c, d \in Clients :
    (Sequential(c, d) /\ Succeeded(c) /\ Succeeded(d) /\ SameTuple(req[c], req[d])
       /\ req[c].format = req[d].format /\ ~obs[c].pre)
    => (~resp[c].cache_hit /\ resp[d].cache_hit /\ resp[c].audio_url = resp[d].audio_url)

C1_Witness ==
  \E c, d \in Clients :
    /\ Sequential(c, d) /\ Succeeded(c) /\ Succeeded(d) /\ req[c] = req[d]
    /\ ~obs[c].pre /\ resp[d].cache_hit

\* C2: the Kokoro service answers a POST whose language is no key of
\* supported_languages with status 400.
C2_Unsupported400 ==
  \A c \in Clients :
    (service = "kokoro" /\ Posted(c) /\ req[c].language \notin DOMAIN KokoroSupportedLanguages)
    => resp[c].status = 400

\* C3: the MLX-Audio service answers a POST whose language is outside
\* {en, ja, zh} with status 400, without calling the engine or writing a file.
C3_Unsupported400 ==
  \A c \in Clients :
    (service = "mlx" /\ Posted(c) /\ req[c].language \notin DOMAIN MlxSupportedLanguages)
    => (resp[c].status = 400 /\ obs[c].invoked = 0 /\ obs[c].wrote = 0)

\* the file an audio_url names
UrlFile(url) == url[2]

\* C4: GET /audio/{filename} answers 404 exactly when the cache held no file of
\* that name at that moment, and otherwise serves the file with Cache-Control:
\* public, max-age=3600; the audio_url of every successful POST is served (not
\* 404) from then on.
C4_AudioServed ==
  /\ \A c \in Clients :
       Fetched(c) =>
         /\ resp[c].status = 404 <=> ~obs[c].pre
         /\ obs[c].pre => /\ resp[c].status = 200
                          /\ resp[c].cache_control = "public, max-age=3600"
                          /\ resp[c].body = cache[obs[c].file]
  /\ \A c \in Clients :
       Succeeded(c) => get_audio_file(cache, UrlFile(resp[c].audio_url)).status = 200

C4_Witness ==
  \E c, d \in Clients :
    /\ Succeeded(c) /\ Fetched(d) /\ c \in obs[d].before
    /\ AudioUrl(obs[d].file) = resp[c].audio_url /\ resp[d].status = 200

\* the failures of the first attempt of the MLX synthesize
FirstAttempt == {"KokoroPipeline raised", "pipeline.generate raised"}

\* C5 as stated: a POST during which model loading, the model call, the cache
\* write or the metadata read failed is answered 500 with a message.
C5_AnyFailure500 ==
  \A c \in Clients :
    (Posted(c) /\ obs[c].faults # {}) => (resp[c].status = 500 /\ resp[c].detail # "")

\* C5 (amended): the same, for every failure but those of the first attempt of
\* the MLX synthesize (KokoroPipeline(...) or pipeline.generate(...) raising),
\* which the fallback to kokoro_model.generate absorbs.
C5_EscapedFailure500 ==
  \A c \in Clients :
    (Posted(c) /\ obs[c].faults \ FirstAttempt # {})
    => (resp[c].status = 500 /\ resp[c].detail # "")

C5_Witness ==
  \E c \in Clients :
    /\ Posted(c) /\ service = "mlx" /\ resp[c].status = 500
    /\ "pipeline.generate raised" \in obs[c].faults
    /\ "kokoro_model.generate raised" \in obs[c].faults

\* C6: a file of the cache is never deleted and never overwritten.
C6_CacheImmutable ==
  [][\A f \in DOMAIN cache : f \in DOMAIN cache' /\ cache'[f] = cache[f]]_vars

C6_Witness ==
  \E c, d \in Clients :
    /\ Sequential(c, d) /\ obs[c].wrote = 1 /\ obs[d].pre
    /\ CacheFile(service, req[c]) = CacheFile(service, req[d])

\* the handlers between their cache check and their cache write
Critical == {c \in Clients : pc[c] \in {"synthesize", "generate"}}

\* two POSTs of the same request that were in flight together, the cache file
\* missing when the first of them was handled
ConcurrentFirstTime(c, d) ==
  /\ Concurrent(c, d) /\ Posted(c) /\ Posted(d) /\ req[c] = req[d]
  /\ (~obs[c].pre \/ ~obs[d].pre)

HandlerStep(c) ==
  \/ Kokoro_synthesize_speech(c) \/ Kokoro_load_model(c) \/ Kokoro_synthesize(c)
  \/ Mlx_synthesize_speech(c) \/ Mlx_synthesize(c)

\* what C8 says of two such requests c and d
C8_Outcome(c, d) ==
  /\ Succeeded(c) /\ Succeeded(d)
  /\ resp[c].audio_url = resp[d].audio_url
  /\ UrlFile(resp[c].audio_url) = CacheFile(service, req[c])
  /\ Exists(cache, CacheFile(service, req[c]))
  /\ cache[CacheFile(service, req[c])].complete
  /\ obs[c].wrote + obs[d].wrote = 1

\* the request passes the validation of the service (only Kokoro has one)
Accepted(r) == service = "kokoro" => r.language \in DOMAIN KokoroSupportedLanguages

\* C8 as stated: two concurrent identical first-time POSTs, the model and the
\* disk not failing, both end with status 200 and the same audio_url, and the
\* cache then holds their file, complete and written once.
C8_AnyRequest ==
  \A c, d \in Clients :
    (ConcurrentFirstTime(c, d) /\ obs[c].faults = {} /\ obs[d].faults = {})
    => C8_Outcome(c, d)

\* C8 (amended): the same for requests whose language the service accepts; and
\* a request in flight is never stuck (some handler can always take a step).
C8_ConcurrentIdentical ==
  /\ \A c, d \in Clients :
       (ConcurrentFirstTime(c, d) /\ Accepted(req[c])
          /\ obs[c].faults = {} /\ obs[d].faults = {})
       => C8_Outcome(c, d)
  /\ InFlight # {} => \E c \in InFlight : ENABLED HandlerStep(c)

C8_Witness ==
  \E c, d \in Clients :
    /\ ConcurrentFirstTime(c, d) /\ obs[c].faults = {} /\ obs[d].faults = {}
    /\ Succeeded(c) /\ Succeeded(d)

\* C9: two requests whose (text, voice, speed, language) differ give different
\* strings to hash.
C9_KeyInjective ==
  \A c, d \in Clients :
    (kind[c] = "post" /\ kind[d] = "post" /\ ~SameTuple(req[c], req[d]))
    => KeyContent(ServicePrefix(service), req[c].text, req[c].voice, req[c].speed,
                  req[c].language)
       # KeyContent(ServicePrefix(service), req[d].text, req[d].voice, req[d].speed,
                    req[d].language)

\* C10: every sample of every file of the cache is a number within [-1, 1].
C10_SamplesInRange ==
  \A f \in DOMAIN cache :
    \A i \in 1..Len(cache[f].data) : InUnitRange(cache[f].data[i])

\* the same of the MLX-Audio service alone, which repairs what the model yields
MlxSamplesInRange == service = "mlx" => C10_SamplesInRange

\* C11: the duration reported by the request that generated a cache file equals
\* the duration reported by every later cache hit on that file, both being the
\* number of stored samples over the sample rate of 24000.
C11_SameDuration ==
  \A c, d \in Clients :
    (Sequential(c, d) /\ Succeeded(c) /\ Succeeded(d)
       /\ CacheFile(service, req[c]) = CacheFile(service, req[d])
       /\ ~resp[c].cache_hit /\ resp[d].cache_hit)
    => /\ resp[c].duration = resp[d].duration
       /\ resp[c].duration = <<Len(cache[CacheFile(service, req[c])].data), 24000>>

C11_Witness ==
  \E c, d \in Clients :
    /\ Sequential(c, d) /\ Succeeded(c) /\ Succeeded(d) /\ service = "mlx"
    /\ CacheFile(service, req[c]) = CacheFile(service, req[d])
    /\ ~resp[c].cache_hit /\ resp[d].cache_hit
    /\ Len(cache[CacheFile(service, req[c])].data) > 1

\* the step in which the POST handler of c sends its response
Responds(c) == pc[c] # "done" /\ pc'[c] = "done" /\ kind'[c] = "post"

\* C12 as stated: a request that finds its cache file present never invokes the
\* engine and never writes; a request that misses invokes the engine exactly
\* once and writes exactly one cache file before responding.
C12_EveryMissWrites ==
  \A c \in Clients :
    Posted(c) =>
      /\ obs[c].pre => obs[c].invoked = 0 /\ obs[c].wrote = 0
      /\ (~obs[c].pre /\ obs[c].invoked > 0) => obs[c].invoked = 1 /\ obs[c].wrote = 1

\* C12, amended: a request that finds its cache file present responds without
\* invoking the engine, without changing the cache and without changing the
\* engine's pipeline handle; a request that misses invokes the engine exactly
\* once, and when it is answered 200 it has written exactly one cache file, its
\* own, before responding; when it is answered with an error it has written at
\* most that file.
C12_HitAvoidsRecomputation ==
  [][\A c \in Clients :
       Responds(c) =>
         LET file == CacheFile(service, req[c])
         IN  IF obs'[c].pre
             THEN /\ pc[c] = "pending"
                  /\ obs'[c].invoked = 0 /\ obs'[c].wrote = 0
                  /\ cache' = cache
                  /\ tts_engine' = tts_engine
             ELSE /\ obs'[c].invoked <= 1
                  /\ resp'[c].status = 200 =>
                       /\ obs'[c].invoked = 1 /\ obs'[c].wrote = 1
                       /\ file \notin DOMAIN cache
                       /\ cache' = Put(cache, file, cache'[file])
                       /\ cache'[file].complete
                  /\ resp'[c].status # 200 =>
                       /\ obs'[c].wrote <= 1
                       /\ \A f \in DOMAIN cache' \ {file} : f \in DOMAIN cache /\ cache'[f] = cache[f]]_vars

C12_Witness ==
  \E c, d \in Clients :
    /\ service = "kokoro" /\ Sequential(c, d)
    /\ Succeeded(c) /\ ~obs[c].pre /\ obs[c].invoked = 1 /\ obs[c].wrote = 1
    /\ Succeeded(d) /\ obs[d].pre /\ resp[d].cache_hit /\ obs[d].invoked = 0
    /\ tts_engine.pipeline # "None"

\* C13: in the MLX-Audio service two requests with equal text, speed and language
\* whose voices get_voice_for_language resolves to the same concrete voice get
\* the same cache key, so the second of them is a cache hit.
C13_NormalizedVoiceKey ==
  \A c, d \in Clients :
    (/\ service = "mlx" /\ Sequential(c, d) /\ Succeeded(c) /\ Succeeded(d)
     /\ req[c].text = req[d].text /\ req[c].speed = req[d].speed
     /\ req[c].language = req[d].language /\ req[c].format = req[d].format
     /\ get_voice_for_language(req[c].language, req[c].voice)
          = get_voice_for_language(req[d].language, req[d].voice))
    => /\ CacheFile(service, req[c]) = CacheFile(service, req[d])
       /\ resp[d].cache_hit

\* the samples of a sequence of segments, one after the other, by position
Flat(segs) ==
  [k \in 1..(IF Len(segs) = 0 THEN 0 ELSE Len(segs[1]) + Len(Concatenate(Tail(segs)))) |->
     LET i == CHOOSE i \in 1..Len(segs) :
                /\ k > Len(Concatenate(SubSeq(segs, 1, i - 1)))
                /\ k <= Len(Concatenate(SubSeq(segs, 1, i)))
     IN  segs[i][k - Len(Concatenate(SubSeq(segs, 1, i - 1)))]]

\* C14 as stated: in both synthesize operations the final waveform is the
\* concatenation of all segments the model yielded, in the order yielded, none
\* dropped or duplicated; with zero segments synthesize raises
\* "No audio segments generated" and returns no waveform.
C14_PlainConcatenation ==
  \A c \in Clients :
    (Posted(c) /\ obs[c].generated) =>
      LET segs == obs[c].yielded
          res == obs[c].returned
      IN  IF segs = <<>>
          THEN ~res.ok /\ res.msg = "No audio segments generated"
          ELSE res.ok /\ res.audio = Flat(segs)

\* C14, amended: KokoroTTS.synthesize returns the concatenation of the segments
\* yielded, in order, and raises "No audio segments generated" on zero segments.
\* NativeMLXAudioTTS.synthesize raises on zero segments (the message wrapped as
\* "MLX-Audio synthesis failed: No audio segments generated") and on a segment
\* of no samples; otherwise its waveform has one sample for every sample
\* yielded, in the order yielded, each repaired: a NaN is 0, a finite sample
\* keeps its sign, and the waveform is the plain concatenation when every
\* sample yielded is within [-1, 1].  A request answered 200 stored exactly the
\* waveform synthesize returned.
C14_ConcatenationInOrder ==
  \A c \in Clients :
    (Posted(c) /\ obs[c].generated) =>
      LET segs == obs[c].yielded
          res == obs[c].returned
          flat == Flat(segs)
      IN  /\ service = "kokoro" =>
               IF segs = <<>>
               THEN ~res.ok /\ res.msg = "No audio segments generated"
               ELSE res.ok /\ res.audio = flat
          /\ service = "mlx" =>
               IF segs = <<>>
               THEN ~res.ok
                    /\ res.msg = "MLX-Audio synthesis failed: No audio segments generated"
               ELSE IF \E i \in 1..Len(segs) : segs[i] = <<>>
               THEN ~res.ok
               ELSE /\ res.ok
                    /\ Len(res.audio) = Len(flat)
                    /\ \A k \in 1..Len(flat) :
                         /\ res.audio[k].k = "fin"
                         /\ flat[k].k = "nan" => res.audio[k].n = 0
                         /\ flat[k].k # "nan" => res.audio[k].n * flat[k].n >= 0
                    /\ (\A k \in 1..Len(flat) : InUnitRange(flat[k])) => res.audio = flat
          /\ Succeeded(c) => cache[CacheFile(service, req[c])].data = res.audio

\* both services assembled two segments with a sample out of range among them
C14_Witness ==
  \E c \in Clients :
    /\ Succeeded(c) /\ obs[c].generated
    /\ Len(obs[c].yielded) = 2 /\ Len(obs[c].yielded[1]) = 1 /\ Len(obs[c].yielded[2]) = 2
    /\ obs[c].yielded[1][1] = Fin(-3, 2) /\ obs[c].yielded[2][1] = Fin(1, 2)
    /\ service = "mlx"

\* C15: a POST /api/tts request that ends in an error response leaves the cache
\* files and their contents unchanged, so every file of the cache was completely
\* written by a request whose synthesis succeeded, and an identical request
\* issued after a failed one is again a cache miss.
C15_ErrorLeavesCacheUnchanged ==
  /\ \A c \in Clients : (Posted(c) /\ resp[c].status # 200) => obs[c].wrote = 0
  /\ \A f \in DOMAIN cache :
       /\ cache[f].complete
       /\ \E c \in Clients : Succeeded(c) /\ ~resp[c].cache_hit /\ CacheFile(service, req[c]) = f
  /\ \A c, d \in Clients :
       (/\ Sequential(c, d) /\ req[c] = req[d]
        /\ resp[c].status # 200 /\ ~obs[c].pre /\ Succeeded(d))
       => ~resp[d].cache_hit

\* C16: in the Kokoro service, whatever the interleaving of concurrent requests
\* with different languages, the pipeline handle the model call of a request
\* uses is the one loaded for that request's language: nothing replaces the
\* handle between the reload and the model call.
C16_OwnPipeline ==
  \A c \in Clients :
    (service = "kokoro" /\ kind[c] = "post") =>
      /\ pc[c] = "generate" =>
           /\ tts_engine.pipeline = KokoroLangCode(req[c].language)
           /\ \A d \in Clients \ {c} : ~ENABLED Kokoro_load_model(d)
      /\ (Posted(c) /\ obs[c].invoked = 1 /\ "load_model" \notin obs[c].faults) =>
           obs[c].pipeline = KokoroLangCode(req[c].language)

C16_Witness ==
  \E c, d \in Clients :
    /\ service = "kokoro" /\ Concurrent(c, d)
    /\ Posted(c) /\ Posted(d)
    /\ req[c].language # req[d].language
    /\ obs[c].generated /\ obs[d].generated
    /\ obs[c].pipeline # obs[d].pipeline

\* C17: in the MLX-Audio service startup aborts unless the engine was created
\* with a model, so in every state in which a request is handled tts_engine is
\* set and its kokoro_model is not None, and no POST /api/tts is answered 503.
C17_EngineBoundBeforeServing ==
  service = "mlx" =>
    /\ (server = "serving" \/ \E c \in Clients : pc[c] # "idle") =>
         tts_engine.bound /\ tts_engine.kokoro_model /\ MLX_AUDIO_AVAILABLE
    /\ server = "aborted" => \A c \in Clients : pc[c] = "idle"
    /\ \A c \in Clients :
         /\ resp[c].status # 503
         /\ obs[c].returned.msg # "MLX-Audio not available or not initialized"

C17_Witness ==
  \E c \in Clients :
    /\ service = "mlx" /\ Posted(c) /\ obs[c].invoked = 1
    /\ tts_engine.bound /\ tts_engine.kokoro_model

\* C18: in the Kokoro service the segments field of a successful response is the
\* number of segments the model yielded when the request was a cache miss, and
\* is 1 when the request was a cache hit, whatever number of segments the cached
\* file was generated from.
C18_SegmentsField ==
  \A c \in Clients :
    (service = "kokoro" /\ Succeeded(c)) =>
      IF resp[c].cache_hit
      THEN resp[c].segments = 1 /\ ~obs[c].generated
      ELSE obs[c].generated /\ resp[c].segments = Len(obs[c].yielded)

\* a miss that reported two segments, then a hit on its file that reports one
C18_Witness ==
  \E c, d \in Clients :
    /\ service = "kokoro" /\ Sequential(c, d) /\ Succeeded(c) /\ Succeeded(d)
    /\ CacheFile(service, req[c]) = CacheFile(service, req[d])
    /\ ~resp[c].cache_hit /\ resp[c].segments = 2 /\ Len(obs[c].yielded) = 2
    /\ resp[d].cache_hit /\ resp[d].segments = 1

====
